---- MODULE Spec2Model ----
(***************************************************************************)
(* RealtimeClient (src/lib/openai-realtime.ts): the transport with its     *)
(* reconnect policy, the audio playback queue with interruption, the       *)
(* microphone capture pipeline and the word progression of a pronunciation *)
(* session.                                                                *)
(*                                                                         *)
(* The browser is the environment: WebSocket objects raise open, error,    *)
(* close and message events on the handlers connect() attached to them,    *)
(* getUserMedia resolves or rejects a pending connect(), timers fire, the  *)
(* audio clock advances and AudioBufferSourceNodes raise "ended" (at the   *)
(* end of their buffer, or after stop()).  Each action below is one task   *)
(* of the single-threaded event loop and runs its handler to completion.   *)
(***************************************************************************)
EXTENDS Integers, Sequences, FiniteSets, Bags, TLC

\* ---- bounds of the model
MaxSockets == 3      \* WebSocket objects created over a run
MaxChunks == 3       \* response.audio.delta frames received over a run
MaxTime == 2         \* ticks of the audio clock
MaxDur == 1          \* longest buffer duration, in ticks
MaxWords == 3        \* longest word list handed to updateContext
MaxAttempts == 3     \* attemptCount is followed up to this value
MaxTimers == 2       \* pending advance timers, and pending delayed sends
SampleSteps == 100    \* samples are the multiples of 1 / SampleSteps
MaxFrames == 3       \* frames a client sends over one connection to the relay
MaxKeys == 2         \* values OPENAI_API_KEY can be configured with
MaxSessions == 3     \* calls of the store's startSession over a run

\* ---- program constants
maxReconnectAttempts == 3
NormalClosure == 1000
AbnormalClosure == NormalClosure + 6   \* 1006, standing for every close code other than 1000
MinWords == 3          \* createSession: recentWords.length < 3
AttemptsPerWord == 2   \* handleMessage: attemptCount >= 2
pc == 0                \* this.pc: declared null and assigned nowhere else
Undefined == 0         \* recentWords[i] for i past the end of the list
NegativeScale == 32768 \* convertFloat32ToPCM16: 0x8000
PositiveScale == 32767 \* convertFloat32ToPCM16: 0x7FFF
DecodeScale == 32768   \* playAudioChunk: int16 / 32768.0

VARIABLES
    \* transport
    ws,                 \* this.ws: 0 = null, else the id of a WebSocket object
    sock,               \* the WebSocket objects: id -> state (SocketStates)
    isConnected,
    reconnectAttempts,
    reconnectTimers,    \* setTimeout callbacks of attemptReconnect not yet run
    pendingConnect,     \* connect() calls awaiting getUserMedia, by caller
    mediaStream,        \* this.mediaStream is non-null
    audioProcessor,     \* this.audioProcessor is non-null
    \* practice
    recentWords,        \* the word list, as a sequence of word ids
    practiceMode,
    testWord,           \* this.testWord is non-empty
    wordProgressionEnabled,
    currentWordIndex,   \* 0-based, as in the code
    attemptCount,
    waitingForNextWord,
    blockedRecently,    \* Date.now() - lastBlockedTime < 1000
    advanceTimers,      \* setTimeout(forceNextWord, 3000) callbacks not yet run
    delayed,            \* the other setTimeout callbacks not yet run (a bag)
    sent,               \* the frames the last step passed to ws.send, in order
    \* playback
    audioContext,       \* this.audioContext: 0 = null, else the id of an AudioContext
    ctxBase,            \* the time at which the current AudioContext was created
    now,                \* wall-clock time, in ticks
    playbackQueue,
    isPlaying,
    nextPlaybackTime,
    currentAudioSource, \* 0 = null, else the id of a source node
    sources,            \* source nodes whose "ended" event has not been dispatched yet
    \* the remote service
    chunks,             \* audio deltas received so far
    envResp,            \* the response being streamed: "none", "fresh", or "stale"
                        \* when speech_started was handled while it was in progress
    \* observation of the run
    last,               \* the handler that ran in the last step
    emitted,            \* the events it emitted, in order
    arrived,            \* ids of the buffers enqueued since the queue was last cleared
    schedLog,           \* the buffers scheduled since the queue was last cleared
    sinceOpen,          \* attemptReconnect calls since a socket last reached open
    disconnected,       \* disconnect() was called and the caller has not called connect() since
    maxReached,         \* reconnectAttempts reached the maximum through attemptReconnect,
                        \* and no socket has opened and disconnect() was not called since
    fatalEmitted,       \* 'Maximum reconnection attempts reached' was emitted
    \* around the client
    app,                \* the VoiceInterface component and the store (see AppStart)
    server,             \* the relay and the /api/realtime route (see ServerStart)
    codec               \* one sample on its way through the PCM16 conversions

vars == << ws, sock, isConnected, reconnectAttempts, reconnectTimers, pendingConnect,
           mediaStream, audioProcessor, audioContext, ctxBase, now, playbackQueue,
           isPlaying, nextPlaybackTime, currentAudioSource, sources, chunks,
           envResp, last, emitted, arrived, schedLog, sinceOpen, disconnected,
           maxReached, fatalEmitted, recentWords,
           practiceMode, testWord, wordProgressionEnabled, currentWordIndex,
           attemptCount, waitingForNextWord, blockedRecently, advanceTimers,
           delayed, sent, app, server, codec >>

transportVars == << ws, sock, isConnected, reconnectAttempts, reconnectTimers,
                    pendingConnect, mediaStream, audioProcessor >>
playbackVars == << audioContext, ctxBase, playbackQueue, isPlaying, nextPlaybackTime,
                   currentAudioSource, sources, arrived, schedLog >>
serviceVars == << chunks, envResp >>
reconnectObs == << sinceOpen, disconnected, maxReached, fatalEmitted >>
practiceVars == << recentWords, practiceMode, testWord, wordProgressionEnabled,
                   currentWordIndex, attemptCount, waitingForNextWord, blockedRecently,
                   advanceTimers, delayed >>

Max(a, b) == IF a >= b THEN a ELSE b

SocketIds == 1..MaxSockets

\* "none": not constructed yet.  "aborted": close() was called before the
\* connection was established, so it fails (error, then close).  "failed": the
\* error event was dispatched and the close event is due.  "closing": close()
\* was called on an open socket and the close event is due.
SocketStates == {"none", "connecting", "open", "aborted", "failed", "closing", "closed"}
Callers == {"user", "timer"}

nSockets == Cardinality({s \in SocketIds : sock[s] # "none"})
nPending == pendingConnect["user"] + pendingConnect["timer"]

\* connect() has not been called yet.
BeforeConnect == nSockets = 0 /\ nPending = 0

\* this.ws && this.ws.readyState === WebSocket.OPEN
WsOpen == ws # 0 /\ sock[ws] = "open"

\* The record of a step: the handler, the close code and the caller where they
\* matter, and whether the handler ended with an exception (or a rejected
\* promise) that nothing inside the client caught.
Step(name, code, caller, threw) ==
    [op |-> name, code |-> code, caller |-> caller, threw |-> threw]

Op(name) == Step(name, 0, "", FALSE)

\* disconnect() ran in the step recorded by l ("disconnect.again": it also ran
\* in the step before)
IsDisconnect(l) == l.op \in {"disconnect", "disconnect.again"}

\* A handler that sends no frame and leaves the practice state alone
PracticeUntouched == sent' = << >> /\ UNCHANGED practiceVars

\* The VoiceInterface component and the store before the first conversation:
\* client is true once startConversation has created a RealtimeClient and
\* registered its listeners on it, clientRef is clientRef.current # null,
\* isConnected is the component's state behind the connection indicator, and
\* isRecording, currentSession (non-null) and practiceMode are the store's.
\* tab is the page's activeTab, isTestActive the PronunciationTest component's
\* state, started counts the calls of startSession and sessions is the length
\* of the store's sessions.
AppStart ==
    [client |-> FALSE, clientRef |-> FALSE, isConnected |-> FALSE,
     isRecording |-> FALSE, currentSession |-> FALSE, practiceMode |-> "conversation",
     tab |-> "practice", isTestActive |-> FALSE, started |-> 0, sessions |-> 0]

\* The store's startSession(mode): a new session becomes the current one.
SessionStarted(a, mode) ==
    [a EXCEPT !.currentSession = TRUE, !.practiceMode = mode, !.started = @ + 1]

\* The store's endSession(): the current session, if there is one, is appended
\* to sessions.
SessionEnded(a) ==
    IF a.currentSession
      THEN [a EXCEPT !.currentSession = FALSE, !.sessions = @ + 1]
      ELSE a

NoKey == 0        \* process.env.OPENAI_API_KEY is not set
NoResponse == [status |-> 0, client_secret |-> NoKey]

\* The server process with OPENAI_API_KEY = key: no request to the route was
\* answered yet (response), and no client has connected to the relay: down is
\* the relay's end of the client's socket (ws), up its socket to the remote
\* service (openaiWs), inbox the frames the client sent that ws.on('message')
\* has not handled yet, delivered the frames passed to openaiWs.send, and
\* clientSent the frames the client sent on this connection.
ServerStart(key) ==
    [key |-> key, response |-> NoResponse, down |-> "none", up |-> "none",
     inbox |-> << >>, delivered |-> << >>, clientSent |-> << >>]

\* A sample n / SampleSteps handed to convertFloat32ToPCM16: bytes is the pair
\* of bytes written for it, float32 the numerator over 32768 playAudioChunk
\* reads back.
CodecStart(n) == [stage |-> "float32", sample |-> n, bytes |-> << >>, float32 |-> 0]

\* Nothing outside the client changes.
AppUntouched == UNCHANGED << app, server, codec >>

\* The listeners startConversation registered on the client: 'connected'
\* calls setIsConnected(true) and setIsRecording(true); no listener of any
\* other event changes the connection indicator or the store.
Listeners(a, events) ==
    IF a.client /\ \E i \in 1..Len(events) : events[i] = "connected"
      THEN [a EXCEPT !.isConnected = TRUE, !.isRecording = TRUE]
      ELSE a

InitClient ==
    /\ ws = 0
    /\ sock = [s \in SocketIds |-> "none"]
    /\ isConnected = FALSE
    /\ reconnectAttempts = 0
    /\ reconnectTimers = 0
    /\ pendingConnect = [c \in Callers |-> 0]
    /\ mediaStream = FALSE
    /\ audioProcessor = FALSE
    /\ audioContext = 0
    /\ ctxBase = 0
    /\ now = 0
    /\ playbackQueue = << >>
    /\ isPlaying = FALSE
    /\ nextPlaybackTime = 0
    /\ currentAudioSource = 0
    /\ sources = {}
    /\ chunks = 0
    /\ envResp = "none"
    /\ last = Op("new")
    /\ emitted = << >>
    /\ arrived = << >>
    /\ schedLog = << >>
    /\ sinceOpen = 0
    /\ disconnected = FALSE
    /\ maxReached = FALSE
    /\ fatalEmitted = FALSE
    /\ recentWords = << >>
    /\ practiceMode = "conversation"
    /\ testWord = FALSE
    /\ wordProgressionEnabled = FALSE
    /\ currentWordIndex = 0
    /\ attemptCount = 0
    /\ waitingForNextWord = FALSE
    /\ blockedRecently = FALSE
    /\ advanceTimers = 0
    /\ delayed = EmptyBag
    /\ sent = << >>

\* A new client in a page whose component is idle; the server runs with a key.
Init ==
    /\ InitClient
    /\ app = AppStart
    /\ server = ServerStart(1)
    /\ codec = CodecStart(0)

\* ------------------------------------------------------------------------
\* Transport: connect, the socket's handlers, attemptReconnect, disconnect
\* ------------------------------------------------------------------------

\* connect() up to its await: the call is parked until getUserMedia settles.
CallConnect(caller) ==
    pendingConnect' = [pendingConnect EXCEPT ![caller] = @ + 1]

\* connect() called by the application.
Connect ==
    /\ nSockets + nPending < MaxSockets
    /\ CallConnect("user")
    /\ disconnected' = FALSE
    /\ last' = Op("connect")
    /\ PracticeUntouched
    /\ AppUntouched
    /\ emitted' = << >>
    /\ UNCHANGED << ws, sock, isConnected, reconnectAttempts, reconnectTimers,
                    mediaStream, audioProcessor >>
    /\ UNCHANGED << playbackVars, serviceVars, now, sinceOpen, maxReached, fatalEmitted >>

\* The rest of connect() once getUserMedia has resolved: the stream is kept, a
\* new WebSocket is constructed (readyState CONNECTING) and assigned to this.ws.
\* The stream and the socket the fields referred to before are not released.
\* When the caller is attemptReconnect's timer body, the await on connect()
\* resumes in the same task: the counter is reset and 'reconnected' emitted.
ResetOnReconnect(caller) == caller = "timer"

\* startConversation after its await client.connect(): clientRef.current = client
ConversationStarted(a) == [a EXCEPT !.clientRef = TRUE]

GetUserMediaResolves(caller) ==
    /\ pendingConnect[caller] > 0
    /\ nSockets < MaxSockets
    /\ pendingConnect' = [pendingConnect EXCEPT ![caller] = @ - 1]
    /\ mediaStream' = TRUE
    /\ ws' = nSockets + 1
    /\ sock' = [sock EXCEPT ![nSockets + 1] = "connecting"]
    /\ IF ResetOnReconnect(caller)
         THEN /\ reconnectAttempts' = 0
              /\ emitted' = << "reconnected" >>
         ELSE /\ reconnectAttempts' = reconnectAttempts
              /\ emitted' = << >>
    /\ last' = Step("connect.resumed", 0, caller, FALSE)
    /\ PracticeUntouched
    /\ app' = IF caller = "user" /\ app.client THEN ConversationStarted(app) ELSE app
    /\ UNCHANGED << server, codec >>
    /\ UNCHANGED << isConnected, reconnectTimers, audioProcessor >>
    /\ UNCHANGED << playbackVars, serviceVars, now, reconnectObs >>

\* The timer body's catch reports the exhaustion when the counter is at the maximum.
ReportsExhaustion(caller) == caller = "timer" /\ reconnectAttempts >= maxReconnectAttempts

\* A catch block that only logs
ConnectFailureLogged(caller) ==
    IF ReportsExhaustion(caller) THEN << "error:max-reconnect" >> ELSE << >>

\* connect()'s catch block emits 'error'
ConnectFailureEvents(caller) ==
    IF ReportsExhaustion(caller) THEN << "error", "error:max-reconnect" >> ELSE << "error" >>

\* connect()'s catch block rethrows: the promise connect() returned rejects.
\* attemptReconnect's timer body awaits it inside a try; what the application
\* does with the promise of its own call is outside the client.
Rethrown(caller) == caller = "user"

\* startConversation's catch block
ConversationFailed(a) == [a EXCEPT !.isRecording = FALSE]

\* getUserMedia rejects: connect() emits 'error' and rethrows.
GetUserMediaRejects(caller) ==
    /\ pendingConnect[caller] > 0
    /\ pendingConnect' = [pendingConnect EXCEPT ![caller] = @ - 1]
    /\ emitted' = ConnectFailureEvents(caller)
    /\ fatalEmitted' = (fatalEmitted \/ ReportsExhaustion(caller))
    /\ last' = Step("connect.failed", 0, caller, Rethrown(caller))
    /\ app' = IF caller = "user" /\ app.client THEN ConversationFailed(app) ELSE app
    /\ UNCHANGED << server, codec >>
    /\ PracticeUntouched
    /\ UNCHANGED << ws, sock, isConnected, reconnectAttempts, reconnectTimers,
                    mediaStream, audioProcessor >>
    /\ UNCHANGED << playbackVars, serviceVars, now, sinceOpen, disconnected, maxReached >>

\* attemptReconnect(): count the attempt and arm the timer.  `n` calls in one
\* handler (0 or 1).
AttemptReconnect(n) ==
    /\ reconnectAttempts' = reconnectAttempts + n
    /\ reconnectTimers' = reconnectTimers + n
    /\ sinceOpen' = sinceOpen + n
    /\ maxReached' = (maxReached \/ (n > 0 /\ reconnectAttempts + n >= maxReconnectAttempts))

\* The body of the timer armed by attemptReconnect, up to its await connect().
ReconnectTimerFires ==
    /\ reconnectTimers > 0
    /\ reconnectTimers' = reconnectTimers - 1
    /\ CallConnect("timer")
    /\ last' = Op("reconnect.timer")
    /\ PracticeUntouched
    /\ AppUntouched
    /\ emitted' = << >>
    /\ UNCHANGED << ws, sock, isConnected, reconnectAttempts, mediaStream, audioProcessor >>
    /\ UNCHANGED << playbackVars, serviceVars, now, reconnectObs >>

\* ws.onerror
ReconnectOnError == reconnectAttempts < maxReconnectAttempts

OnError(s) ==
    /\ sock[s] \in {"connecting", "open", "aborted"}
    /\ sock' = [sock EXCEPT ![s] = "failed"]
    /\ emitted' = << "error" >>
    /\ AttemptReconnect(IF ReconnectOnError THEN 1 ELSE 0)
    /\ last' = Op("ws.onerror")
    /\ PracticeUntouched
    /\ AppUntouched
    /\ UNCHANGED << ws, isConnected, pendingConnect, mediaStream, audioProcessor >>
    /\ UNCHANGED << playbackVars, serviceVars, now, disconnected, fatalEmitted >>

\* An onclose that does not look at the close code
ReconnectOnCloseAnyCode(code) == reconnectAttempts < maxReconnectAttempts

\* ws.onclose
ReconnectOnClose(code) ==
    code # NormalClosure /\ reconnectAttempts < maxReconnectAttempts

\* The codes a close event can carry: a failed connection closes abnormally.
CloseCodes(s) ==
    IF sock[s] = "failed" THEN {AbnormalClosure} ELSE {NormalClosure, AbnormalClosure}

OnClose(s, code) ==
    /\ sock[s] \in {"open", "failed", "closing"}
    /\ code \in CloseCodes(s)
    /\ sock' = [sock EXCEPT ![s] = "closed"]
    /\ isConnected' = FALSE
    /\ emitted' = << "disconnected" >>
    /\ AttemptReconnect(IF ReconnectOnClose(code) THEN 1 ELSE 0)
    /\ last' = Step("ws.onclose", code, "", FALSE)
    /\ PracticeUntouched
    /\ AppUntouched
    /\ UNCHANGED << ws, pendingConnect, mediaStream, audioProcessor >>
    /\ UNCHANGED << playbackVars, serviceVars, now, disconnected, fatalEmitted >>

\* ------------------------------------------------------------------------
\* Playback queue
\* ------------------------------------------------------------------------

\* audioContext.currentTime of the current context
CurrentTime == now - ctxBase

\* A scheduler that takes the newest buffer (pop() for shift())
NextBufferNewest(q) == q[Len(q)]

\* playbackQueue.shift()
NextBuffer(q) == Head(q)

\* Math.max(now, this.nextPlaybackTime)
PlayTime(t, npt) == Max(t, npt)

\* A cursor that forgets where the buffer starts
CursorRestarted(playTime, dur) == dur

\* this.nextPlaybackTime = playTime + audioBuffer.duration
CursorAfter(playTime, dur) == playTime + dur

\* source.stop(): a source that is scheduled or playing stops; its "ended"
\* event is dispatched later.  Stopping twice, or after the end, changes nothing.
Stop(srcs, id) ==
    { IF s.id = id /\ s.state = "scheduled" THEN [s EXCEPT !.state = "stopped"] ELSE s
      : s \in srcs }

\* processPlaybackQueue(), entered with queue q, handle cur and source nodes srcs
ProcessPlaybackQueue(q, cur, srcs) ==
    IF q = << >> \/ audioContext = 0
      THEN /\ isPlaying' = FALSE
           /\ playbackQueue' = q
           /\ currentAudioSource' = cur
           /\ sources' = srcs
           /\ UNCHANGED << nextPlaybackTime, schedLog >>
      ELSE LET b == NextBuffer(q)
               playTime == PlayTime(CurrentTime, nextPlaybackTime)
           IN  /\ isPlaying' = TRUE
               /\ playbackQueue' = Tail(q)
               /\ currentAudioSource' = b.id
               /\ sources' = srcs \cup { [id |-> b.id, ctx |-> audioContext,
                                          end |-> ctxBase + playTime + b.dur,
                                          state |-> "scheduled"] }
               /\ nextPlaybackTime' = CursorAfter(playTime, b.dur)
               /\ schedLog' = Append(schedLog,
                      [id |-> b.id, stale |-> b.stale, start |-> playTime, dur |-> b.dur,
                       enq |-> b.enq, base |-> ctxBase])

\* Some socket this client attached its onmessage handler to is open.
CanReceive == \E s \in SocketIds : sock[s] = "open"

\* A playAudioChunk that leaves the scheduler to the playback-ended callbacks
StartsSchedulerNever == FALSE

\* playAudioChunk enqueues and, when idle, starts the scheduler
StartsScheduler == ~isPlaying

\* A playAudioChunk that enqueues whatever it was handed
EnqueuesUndecoded(decodes) == audioContext # 0

\* playAudioChunk reaches playbackQueue.push: there is an AudioContext and
\* nothing in the try block threw before it
Enqueues(decodes) == audioContext # 0 /\ decodes

\* 'response.audio.delta' -> playAudioChunk(delta).  decodes = FALSE is a chunk
\* whose decoding throws inside the try block (atob on a string that is not
\* base64, createBuffer on zero samples): caught and logged.
AudioDelta(dur, decodes) ==
    /\ CanReceive
    /\ envResp # "none"
    /\ chunks < MaxChunks
    /\ chunks' = chunks + 1
    /\ IF ~Enqueues(decodes)
         THEN UNCHANGED << playbackQueue, isPlaying, nextPlaybackTime, currentAudioSource,
                           sources, arrived, schedLog >>
         ELSE LET b == [id |-> chunks + 1, stale |-> (envResp = "stale"), dur |-> dur, enq |-> now]
              IN  /\ arrived' = Append(arrived, b.id)
                  /\ IF StartsScheduler
                       THEN ProcessPlaybackQueue(Append(playbackQueue, b),
                                                 currentAudioSource, sources)
                       ELSE /\ playbackQueue' = Append(playbackQueue, b)
                            /\ UNCHANGED << isPlaying, nextPlaybackTime, currentAudioSource,
                                            sources, schedLog >>
    /\ last' = Op(IF decodes THEN "response.audio.delta" ELSE "response.audio.delta.undecodable")
    /\ PracticeUntouched
    /\ AppUntouched
    /\ emitted' = << >>
    /\ UNCHANGED << transportVars, audioContext, ctxBase, now, envResp, reconnectObs >>

\* source.onended: dispatched once the source has played to its end or was stopped
EndedDue(s) ==
    \/ s.state = "stopped"
    \/ s.state = "closed"
    \/ s.state = "scheduled" /\ now >= s.end

SourceEnded(s) ==
    /\ s \in sources
    /\ EndedDue(s)
    /\ ProcessPlaybackQueue(playbackQueue, 0, sources \ {s})
    /\ last' = Op("source.onended")
    /\ PracticeUntouched
    /\ AppUntouched
    /\ emitted' = << >>
    /\ UNCHANGED << transportVars, audioContext, ctxBase, now, serviceVars, arrived,
                    reconnectObs >>

\* A source of a closed AudioContext may never get its "ended" event.
SourceDiscarded(s) ==
    /\ s \in sources
    /\ s.state = "closed"
    /\ sources' = sources \ {s}
    /\ last' = Op("source.discarded")
    /\ PracticeUntouched
    /\ AppUntouched
    /\ emitted' = << >>
    /\ UNCHANGED << transportVars, audioContext, ctxBase, now, playbackQueue, isPlaying,
                    nextPlaybackTime, currentAudioSource, arrived, schedLog, serviceVars,
                    reconnectObs >>

\* clearAudioQueue(), entered with handle cur and source nodes srcs
ClearAudioQueue(cur, srcs) ==
    /\ playbackQueue' = << >>
    /\ isPlaying' = FALSE
    /\ nextPlaybackTime' = 0
    /\ sources' = IF cur # 0 THEN Stop(srcs, cur) ELSE srcs
    /\ currentAudioSource' = 0
    /\ arrived' = << >>
    /\ schedLog' = << >>

\* handleUserInterruption(): stop the current source, then clearAudioQueue()
HandleUserInterruption ==
    ClearAudioQueue(0, IF currentAudioSource # 0 THEN Stop(sources, currentAudioSource)
                                                  ELSE sources)

\* 'input_audio_buffer.speech_started'
SpeechStarted ==
    /\ CanReceive
    /\ HandleUserInterruption
    /\ envResp' = IF envResp = "none" THEN "none" ELSE "stale"
    /\ last' = Op("speech_started")
    /\ PracticeUntouched
    /\ AppUntouched
    /\ emitted' = << "user.speaking.start" >>
    /\ UNCHANGED << transportVars, audioContext, ctxBase, now, chunks, reconnectObs >>

\* 'response.cancelled'
ResponseCancelled ==
    /\ CanReceive
    /\ envResp # "none"
    /\ ClearAudioQueue(currentAudioSource, sources)
    /\ envResp' = "none"
    /\ last' = Op("response.cancelled")
    /\ PracticeUntouched
    /\ AppUntouched
    /\ emitted' = << "assistant.interrupted" >>
    /\ UNCHANGED << transportVars, audioContext, ctxBase, now, chunks, reconnectObs >>

\* 'response.created' is not a case of handleMessage's switch: default branch
ResponseCreated ==
    /\ CanReceive
    /\ envResp = "none"
    /\ envResp' = "fresh"
    /\ last' = Op("response.created")
    /\ PracticeUntouched
    /\ AppUntouched
    /\ emitted' = << "message" >>
    /\ UNCHANGED << transportVars, playbackVars, now, chunks, reconnectObs >>

\* 'response.done'
ResponseDone ==
    /\ CanReceive
    /\ envResp # "none"
    /\ envResp' = "none"
    /\ last' = Op("response.done")
    /\ PracticeUntouched
    /\ AppUntouched
    /\ emitted' = << "response.complete" >>
    /\ UNCHANGED << transportVars, playbackVars, now, chunks, reconnectObs >>

\* A handler that takes 'server_error' at its word ("may need to retry")
RetriesOnServerError(type) == IF type = "server_error" THEN 1 ELSE 0

\* handleMessage, case 'error': the branches on data.error.type only log
RetriesOnErrorFrame(type) == 0

ErrorTypes == {"invalid_request_error", "server_error", "other"}

\* An 'error' frame whose error has the given type
ErrorFrame(type) ==
    /\ CanReceive
    /\ emitted' = << "error" >>
    /\ AttemptReconnect(RetriesOnErrorFrame(type))
    /\ last' = Op("error")
    /\ PracticeUntouched
    /\ AppUntouched
    /\ UNCHANGED << ws, sock, isConnected, pendingConnect, mediaStream, audioProcessor >>
    /\ UNCHANGED << playbackVars, serviceVars, now, disconnected, fatalEmitted >>

\* ws.onmessage with data that is not JSON: JSON.parse throws in the handler,
\* which has no try block; handleMessage is not reached.
MalformedFrame ==
    /\ CanReceive
    /\ emitted' = << >>
    /\ last' = Step("ws.onmessage", 0, "", TRUE)
    /\ PracticeUntouched
    /\ AppUntouched
    /\ UNCHANGED << transportVars, playbackVars, serviceVars, now, reconnectObs >>

\* The clock advances.
Tick ==
    /\ now < MaxTime
    /\ now' = now + 1
    /\ last' = Op("tick")
    /\ PracticeUntouched
    /\ AppUntouched
    /\ emitted' = << >>
    /\ UNCHANGED << transportVars, playbackVars, serviceVars, reconnectObs >>

\* ------------------------------------------------------------------------
\* Practice: the word list, the session and the word progression
\* ------------------------------------------------------------------------

Words == 1..MaxWords

\* The lists the application hands to updateContext: the first n words of its
\* store, and the whole store in the opposite order.
WordLists ==
    { [i \in 1..n |-> i] : n \in 0..MaxWords } \cup { [i \in 1..MaxWords |-> MaxWords + 1 - i] }

PracticeModes == {"pronunciation", "vocabulary", "conversation", "pronunciation-test"}

\* An outbound frame: its type, which of the client's texts it carries, and the
\* word of the list that text names (Undefined when the index is past the end,
\* and for a text that names no word of the list).
Frame(type, text, word) == [type |-> type, text |-> text, word |-> word]

\* words[i], with the code's 0-based i
WordAt(words, i) == IF i < Len(words) THEN words[i + 1] ELSE Undefined

\* A callback handed to setTimeout (other than forceNextWord)
Callback(kind, word) == [kind |-> kind, word |-> word]

CanArm == BagCardinality(delayed) < MaxTimers

Arm(cb) == delayed (+) SetToBag({cb})

\* The instructions of createSession's session.update for a list of at least
\* three words, and the word they name as the current word.
SessionInstructions ==
    IF practiceMode = "pronunciation"
      THEN Frame("session.update", "pronunciation", WordAt(recentWords, 0))
      ELSE IF practiceMode = "pronunciation-test" /\ testWord
             THEN Frame("session.update", "pronunciation-test", Undefined)
             ELSE Frame("session.update", "general", Undefined)

\* createSession(), called by onopen once the sockets are in states socks
CreateSession(socks) ==
    IF ws = 0 \/ socks[ws] # "open"
      THEN /\ sent' = << >>
           /\ UNCHANGED << currentWordIndex, attemptCount, delayed >>
      ELSE /\ currentWordIndex' = 0
           /\ attemptCount' = 0
           /\ IF Len(recentWords) < MinWords
                THEN /\ sent' = << Frame("session.update", "not-enough-words", Undefined) >>
                     /\ delayed' = delayed
                ELSE /\ CanArm
                     /\ sent' = << SessionInstructions >>
                     /\ delayed' = Arm(Callback("start", Undefined))

\* ws.onopen: isConnected, 'connected', setupAudioCapture(), createSession()
\* setupAudioCapture returns early without a media stream; otherwise it makes a
\* new AudioContext (its clock starts now) and a new ScriptProcessor, and the
\* context and processor it replaces are neither closed nor disconnected.
OnOpen(s) ==
    /\ sock[s] = "connecting"
    /\ sock' = [sock EXCEPT ![s] = "open"]
    /\ isConnected' = TRUE
    /\ emitted' = << "connected" >>
    /\ IF mediaStream
         THEN /\ audioContext' = s
              /\ ctxBase' = now
              /\ audioProcessor' = TRUE
         ELSE UNCHANGED << audioContext, ctxBase, audioProcessor >>
    /\ CreateSession(sock')
    /\ app' = Listeners(app, emitted')
    /\ UNCHANGED << server, codec >>
    /\ sinceOpen' = 0
    /\ maxReached' = FALSE
    /\ last' = Op("ws.onopen")
    /\ UNCHANGED << recentWords, practiceMode, testWord, wordProgressionEnabled,
                    waitingForNextWord, blockedRecently, advanceTimers >>
    /\ UNCHANGED << ws, reconnectAttempts, reconnectTimers, pendingConnect, mediaStream >>
    /\ UNCHANGED << playbackQueue, isPlaying, nextPlaybackTime, currentAudioSource, sources,
                    arrived, schedLog, serviceVars, now, disconnected, fatalEmitted >>

\* audioContext.close(): the sources of that context fall silent
CloseContext(srcs, ctx) ==
    { IF s.ctx = ctx THEN [s EXCEPT !.state = "closed"] ELSE s : s \in srcs }

\* ws.close() on the socket this.ws refers to
CloseSocket(st) ==
    CASE st = "connecting" -> "aborted"
      [] st = "open" -> "closing"
      [] OTHER -> st

\* A disconnect() that adds the maximum to the counter
StopReconnectingBy(n) == n + maxReconnectAttempts

\* this.reconnectAttempts = this.maxReconnectAttempts, entered with counter n
StopReconnecting(n) == maxReconnectAttempts

\* disconnect().  Every release is behind a null check of its handle; of the
\* timers, queued callbacks and practice fields it touches none, and neither
\* currentAudioSource.
DisconnectClient ==
    /\ reconnectAttempts' = StopReconnecting(reconnectAttempts)
    /\ playbackQueue' = << >>
    /\ isPlaying' = FALSE
    /\ nextPlaybackTime' = 0
    /\ audioProcessor' = FALSE
    /\ sources' = IF audioContext # 0 THEN CloseContext(sources, audioContext) ELSE sources
    /\ audioContext' = 0
    /\ mediaStream' = FALSE
    /\ sock' = IF ws # 0 THEN [sock EXCEPT ![ws] = CloseSocket(@)] ELSE sock
    /\ ws' = 0
    /\ isConnected' = FALSE
    /\ emitted' = << "disconnected" >>
    /\ disconnected' = TRUE
    /\ maxReached' = FALSE
    /\ arrived' = << >>
    /\ schedLog' = << >>
    /\ last' = Op(IF IsDisconnect(last) THEN "disconnect.again" ELSE "disconnect")
    /\ PracticeUntouched
    /\ UNCHANGED << reconnectTimers, pendingConnect, ctxBase, currentAudioSource, now,
                    serviceVars, sinceOpen, fatalEmitted >>

\* disconnect() called by the application; no listener of 'disconnected' is
\* registered by the page.
Disconnect == DisconnectClient /\ AppUntouched

\* Neither the transport, the playback pipeline nor the observations of the
\* reconnect policy change.
ClientUntouched ==
    /\ UNCHANGED << transportVars, playbackVars, serviceVars, now, reconnectObs >>
    /\ AppUntouched

\* updateContext(words, homeLanguage)
UpdateContext(words) ==
    /\ recentWords' = words
    /\ sent' = IF WsOpen THEN << Frame("conversation.item.create", "context", Undefined) >>
                         ELSE << >>
    /\ last' = Op("updateContext")
    /\ emitted' = << >>
    /\ UNCHANGED << practiceMode, testWord, wordProgressionEnabled, currentWordIndex,
                    attemptCount, waitingForNextWord, blockedRecently, advanceTimers, delayed >>
    /\ ClientUntouched

\* setTestWord(word)
SetTestWord(nonEmpty) ==
    /\ testWord' = nonEmpty
    /\ sent' = << >>
    /\ last' = Op("setTestWord")
    /\ emitted' = << >>
    /\ UNCHANGED << recentWords, practiceMode, wordProgressionEnabled, currentWordIndex,
                    attemptCount, waitingForNextWord, blockedRecently, advanceTimers, delayed >>
    /\ ClientUntouched

\* setPracticeMode(mode)
SetPracticeMode(mode) ==
    /\ practiceMode' = mode
    /\ currentWordIndex' = 0
    /\ attemptCount' = 0
    /\ wordProgressionEnabled' = (mode = "pronunciation")
    /\ waitingForNextWord' = FALSE
    /\ IF ~WsOpen
         THEN /\ sent' = << >>
              /\ delayed' = delayed
         ELSE IF mode = "pronunciation" /\ Len(recentWords) > 0
                THEN /\ CanArm
                     /\ sent' = << Frame("conversation.item.create", "mode",
                                           WordAt(recentWords, 0)) >>
                     /\ delayed' = Arm(Callback("mode", Undefined))
                ELSE /\ sent' = << Frame("conversation.item.create", "mode", Undefined) >>
                     /\ delayed' = delayed
    /\ last' = Op("setPracticeMode")
    /\ emitted' = << >>
    /\ UNCHANGED << recentWords, testWord, blockedRecently, advanceTimers >>
    /\ ClientUntouched

\* 'conversation.item.created' carrying a user message; transcript = TRUE when
\* item.content[0].transcript is a non-empty string.
ConversationItemCreated(transcript) ==
    /\ CanReceive
    /\ emitted' = << "user.transcript" >>
    /\ IF wordProgressionEnabled /\ transcript /\ Len(recentWords) > 0
         THEN /\ attemptCount < MaxAttempts
              /\ attemptCount' = attemptCount + 1
              /\ IF attemptCount + 1 >= AttemptsPerWord /\ ~waitingForNextWord
                   THEN /\ advanceTimers < MaxTimers
                        /\ waitingForNextWord' = TRUE
                        /\ advanceTimers' = advanceTimers + 1
                   ELSE UNCHANGED << waitingForNextWord, advanceTimers >>
         ELSE UNCHANGED << attemptCount, waitingForNextWord, advanceTimers >>
    /\ sent' = << >>
    /\ last' = Op("conversation.item.created")
    /\ UNCHANGED << recentWords, practiceMode, testWord, wordProgressionEnabled,
                    currentWordIndex, blockedRecently, delayed >>
    /\ ClientUntouched

\* The largest index the model follows: one past the completed state
MaxIndex == MaxWords + 1

\* A forceNextWord that stays on the word
SameWordIndex(i) == i

\* this.currentWordIndex++
NextWordIndex(i) == i + 1

\* A notice that names the word being left
PreviousWordNotice(words, i) ==
    Frame("conversation.item.create", "next-word", WordAt(words, i - 1))

\* forceNextWord's system message "Move to word #i+1 which is <words[i]>"
NextWordNotice(words, i) == Frame("conversation.item.create", "next-word", WordAt(words, i))

\* forceNextWord's system message "All words completed! ..."
CompletionNotice == Frame("conversation.item.create", "all-completed", Undefined)

\* The callback of setTimeout(() => this.forceNextWord(), 3000)
ForceNextWord ==
    /\ advanceTimers > 0
    /\ advanceTimers' = advanceTimers - 1
    /\ IF ~WsOpen \/ ~wordProgressionEnabled
         THEN /\ sent' = << >>
              /\ UNCHANGED << currentWordIndex, attemptCount, waitingForNextWord, delayed >>
         ELSE LET i == NextWordIndex(currentWordIndex)
              IN  /\ currentWordIndex < MaxIndex
                  /\ attemptCount' = 0
                  /\ currentWordIndex' = i
                  /\ waitingForNextWord' = FALSE
                  /\ IF i >= Len(recentWords)
                       THEN /\ sent' = << CompletionNotice >>
                            /\ delayed' = delayed
                       ELSE /\ CanArm
                            /\ sent' = << Frame("response.cancel", "", Undefined),
                                          NextWordNotice(recentWords, i) >>
                            /\ delayed' = Arm(Callback("next", Undefined))
    /\ last' = Op("forceNextWord")
    /\ emitted' = << >>
    /\ UNCHANGED << recentWords, practiceMode, testWord, wordProgressionEnabled,
                    blockedRecently >>
    /\ ClientUntouched

\* 'response.function_call_arguments.done' naming move_to_next_word:
\* handleMoveToNextWord(data)
FunctionCallArgumentsDone ==
    /\ CanReceive
    /\ IF ~WsOpen
         THEN /\ sent' = << >>
              /\ UNCHANGED << currentWordIndex, attemptCount, delayed >>
         ELSE LET i == currentWordIndex + 1
              IN  /\ currentWordIndex < MaxIndex
                  /\ currentWordIndex' = i
                  /\ attemptCount' = 0
                  /\ IF i >= Len(recentWords)
                       THEN /\ sent' = << Frame("conversation.item.create",
                                                "function_call_output.completed", Undefined) >>
                            /\ delayed' = delayed
                       ELSE /\ CanArm
                            /\ sent' = << Frame("conversation.item.create",
                                                "function_call_output.continue",
                                                WordAt(recentWords, i)) >>
                            /\ delayed' = Arm(Callback("moved", WordAt(recentWords, i)))
    /\ last' = Op("function_call_arguments.done")
    /\ emitted' = << >>
    /\ UNCHANGED << recentWords, practiceMode, testWord, wordProgressionEnabled,
                    waitingForNextWord, blockedRecently, advanceTimers >>
    /\ ClientUntouched

\* What checkAndBlockWrongWords can tell about an assistant transcript: whether
\* it contains one of the ten words of the method's wrongWords list, whether it
\* contains "practice", and which words of the store it contains.
Texts == [wrong : BOOLEAN, practice : BOOLEAN, words : SUBSET Words]

\* textLower.includes(currentWord); currentWord is '' past the end of the list,
\* and every string includes ''
MentionsCurrent(text) ==
    \/ currentWordIndex >= Len(recentWords)
    \/ recentWords[currentWordIndex + 1] \in text.words

\* first loop: a word of wrongWords is in the text and the current word is not
WrongWordUsed(text) == text.wrong /\ ~MentionsCurrent(text)

\* second loop: a word at another position of the list is in the text, with "practice"
SkipsAhead(text) ==
    /\ text.practice
    /\ \E i \in 1..Len(recentWords) : i - 1 # currentWordIndex /\ recentWords[i] \in text.words

\* checkAndBlockWrongWords(text): response.cancel now, the correction 100 ms later
CheckAndBlockWrongWords(text) ==
    IF ~WsOpen \/ ~wordProgressionEnabled \/ Len(recentWords) = 0
      THEN /\ sent' = << >>
           /\ UNCHANGED << blockedRecently, delayed >>
      ELSE IF WrongWordUsed(text)
             THEN IF blockedRecently
                    THEN /\ sent' = << >>
                         /\ UNCHANGED << blockedRecently, delayed >>
                    ELSE /\ CanArm
                         /\ blockedRecently' = TRUE
                         /\ sent' = << Frame("response.cancel", "", Undefined) >>
                         /\ delayed' = Arm(Callback("correct", Undefined))
             ELSE IF SkipsAhead(text)
                    THEN /\ CanArm
                         /\ sent' = << Frame("response.cancel", "", Undefined) >>
                         /\ delayed' = Arm(Callback("correct", Undefined))
                         /\ UNCHANGED blockedRecently
                    ELSE /\ sent' = << >>
                         /\ UNCHANGED << blockedRecently, delayed >>

\* 'response.audio.transcript' (event 'assistant.transcript') and a non-empty
\* 'response.audio_transcript.delta' (event 'assistant.transcript.delta')
AudioTranscript(text, event) ==
    /\ CanReceive
    /\ IF wordProgressionEnabled /\ Len(recentWords) > 0
         THEN CheckAndBlockWrongWords(text)
         ELSE /\ sent' = << >>
              /\ UNCHANGED << blockedRecently, delayed >>
    /\ emitted' = << event >>
    /\ last' = Op("response.audio.transcript")
    /\ UNCHANGED << recentWords, practiceMode, testWord, wordProgressionEnabled,
                    currentWordIndex, attemptCount, waitingForNextWord, advanceTimers >>
    /\ ClientUntouched

TranscriptEvents == {"assistant.transcript", "assistant.transcript.delta"}

\* One second has passed since lastBlockedTime.
BlockWindowElapses ==
    /\ blockedRecently
    /\ blockedRecently' = FALSE
    /\ sent' = << >>
    /\ emitted' = << >>
    /\ last' = Op("block.window")
    /\ UNCHANGED << recentWords, practiceMode, testWord, wordProgressionEnabled,
                    currentWordIndex, attemptCount, waitingForNextWord, advanceTimers, delayed >>
    /\ ClientUntouched

\* What a setTimeout callback sends when it runs with this.ws open: the initial
\* response.create of createSession ("start"), the response.create after
\* forceNextWord ("next"), after handleMoveToNextWord ("moved", with the word it
\* captured) and after setPracticeMode ("mode"), and the correction of
\* checkAndBlockWrongWords ("correct"), which read the list and the index when
\* they run.
DelayedFrames(cb) ==
    CASE cb.kind = "start" ->
           IF Len(recentWords) >= MinWords
             THEN << Frame("response.create", "start", WordAt(recentWords, 0)) >>
             ELSE << >>
      [] cb.kind = "next" -> << Frame("response.create", "", Undefined) >>
      [] cb.kind = "moved" -> << Frame("response.create", "moved", cb.word) >>
      [] cb.kind = "mode" -> << Frame("response.create", "mode", WordAt(recentWords, 0)) >>
      [] cb.kind = "correct" ->
           << Frame("conversation.item.create", "correction",
                    WordAt(recentWords, currentWordIndex)),
              Frame("response.create", "", Undefined) >>

\* A setTimeout callback other than forceNextWord runs.
DelayedSend(cb) ==
    /\ BagIn(cb, delayed)
    /\ delayed' = delayed (-) SetToBag({cb})
    /\ sent' = IF WsOpen THEN DelayedFrames(cb) ELSE << >>
    /\ last' = Step("timer", 0, cb.kind, FALSE)
    /\ emitted' = << >>
    /\ UNCHANGED << recentWords, practiceMode, testWord, wordProgressionEnabled,
                    currentWordIndex, attemptCount, waitingForNextWord, blockedRecently,
                    advanceTimers >>
    /\ ClientUntouched

\* A capture path that trusts isConnected and does not look at the socket
SendsAudioWhenConnected == isConnected

\* onaudioprocess returns unless isConnected; sendAudioChunk returns unless
\* this.ws is open
SendsAudio == isConnected /\ WsOpen

\* audioProcessor.onaudioprocess -> convertFloat32ToPCM16 -> sendAudioChunk.
\* A processor that setupAudioCapture replaced runs the same handler on the
\* same client fields.
AudioProcess ==
    /\ audioProcessor
    /\ sent' = IF SendsAudio
                 THEN << Frame("input_audio_buffer.append", "", Undefined) >>
                 ELSE << >>
    /\ last' = Op("onaudioprocess")
    /\ emitted' = << >>
    /\ UNCHANGED practiceVars
    /\ ClientUntouched

\* ------------------------------------------------------------------------
\* The PCM16 conversions, followed for one sample
\* ------------------------------------------------------------------------

Min(a, b) == IF a <= b THEN a ELSE b

\* The samples a capture buffer can hold, as numerators over SampleSteps: the
\* range [-1, 1] and values beyond it on both sides.
Samples == (0 - SampleSteps - SampleSteps \div 4)..(SampleSteps + SampleSteps \div 4)

\* The integer part of num / den (den > 0), rounding toward zero
Truncate(num, den) == IF num >= 0 THEN num \div den ELSE 0 - ((0 - num) \div den)

\* DataView.setInt16(offset, x, true): x is truncated to an integer, reduced
\* modulo 2^16 and written low byte first.
SetInt16(num, den) ==
    LET u == Truncate(num, den) % 65536
    IN  << u % 256, u \div 256 >>

\* DataView.getInt16(offset, true)
GetInt16(bytes) ==
    LET u == bytes[1] + 256 * bytes[2]
    IN  IF u >= 32768 THEN u - 65536 ELSE u

\* convertFloat32ToPCM16 for the sample n / SampleSteps
ConvertFloat32ToPCM16(n) ==
    LET s == Max(0 - SampleSteps, Min(SampleSteps, n))
    IN  SetInt16(IF s < 0 THEN s * NegativeScale ELSE s * PositiveScale, SampleSteps)

\* playAudioChunk's conversion: the sample is PCM16ToFloat32(bytes) / DecodeScale
PCM16ToFloat32(bytes) == GetInt16(bytes)

\* The conversions leave the client, the page and the server alone.
OnlyCodec(name) ==
    /\ last' = Op(name)
    /\ emitted' = << >>
    /\ sent' = << >>
    /\ UNCHANGED << transportVars, playbackVars, serviceVars, now, reconnectObs,
                    practiceVars, app, server >>

\* onaudioprocess hands the captured sample to convertFloat32ToPCM16.
EncodeSample ==
    /\ codec.stage = "float32"
    /\ codec' = [codec EXCEPT !.stage = "pcm16", !.bytes = ConvertFloat32ToPCM16(codec.sample)]
    /\ OnlyCodec("convertFloat32ToPCM16")

\* The same bytes come back in a response.audio.delta and playAudioChunk
\* converts them.
DecodeSample ==
    /\ codec.stage = "pcm16"
    /\ codec' = [codec EXCEPT !.stage = "decoded", !.float32 = PCM16ToFloat32(codec.bytes)]
    /\ OnlyCodec("playAudioChunk.convert")

\* ------------------------------------------------------------------------
\* The page: the practice-mode selector and the VoiceInterface component
\* ------------------------------------------------------------------------

\* The modes of the store
StoreModes == {"pronunciation", "vocabulary", "conversation"}

\* PracticeModes: onClick={() => !isRecording && setPracticeMode(mode.id)};
\* the button is disabled while isRecording.
SelectMode(mode) ==
    /\ app.tab = "practice"
    /\ ~app.isRecording
    /\ app' = [app EXCEPT !.practiceMode = mode]
    /\ last' = Op("selectMode")
    /\ emitted' = << >>
    /\ sent' = << >>
    /\ UNCHANGED << transportVars, playbackVars, serviceVars, now, reconnectObs,
                    practiceVars, server, codec >>

\* startConversation up to its await: the main button shows "start" while
\* isRecording is false.  startSession(practiceMode) unless a session exists,
\* a new RealtimeClient with the page's listeners, updateContext with the
\* store's words, setPracticeMode with the store's mode (the socket is not
\* open: nothing is sent), and connect() up to its own await.  The model
\* follows the first client the page creates.
StartConversation(words) ==
    /\ app.tab = "practice"
    /\ ~app.isRecording
    /\ ~app.client
    /\ BeforeConnect
    /\ app' = [(IF app.currentSession THEN app ELSE SessionStarted(app, app.practiceMode))
                  EXCEPT !.client = TRUE]
    /\ recentWords' = words
    /\ practiceMode' = app.practiceMode
    /\ currentWordIndex' = 0
    /\ attemptCount' = 0
    /\ wordProgressionEnabled' = (app.practiceMode = "pronunciation")
    /\ waitingForNextWord' = FALSE
    /\ CallConnect("user")
    /\ disconnected' = FALSE
    /\ last' = Op("startConversation")
    /\ emitted' = << >>
    /\ sent' = << >>
    /\ UNCHANGED << ws, sock, isConnected, reconnectAttempts, reconnectTimers,
                    mediaStream, audioProcessor >>
    /\ UNCHANGED << playbackVars, serviceVars, now, sinceOpen, maxReached, fatalEmitted >>
    /\ UNCHANGED << testWord, blockedRecently, advanceTimers, delayed, server, codec >>

\* What stopConversation leaves of the page: endSession() ends the session.
Stopped(a) ==
    SessionEnded([a EXCEPT !.clientRef = FALSE, !.isConnected = FALSE, !.isRecording = FALSE])

\* stopConversation: the main button shows "stop" while isRecording is true
StopConversation ==
    /\ app.tab = "practice"
    /\ app.isRecording
    /\ IF app.clientRef
         THEN DisconnectClient
         ELSE /\ last' = Op("stopConversation")
              /\ emitted' = << >>
              /\ sent' = << >>
              /\ UNCHANGED << transportVars, playbackVars, serviceVars, now, reconnectObs,
                              practiceVars >>
    /\ app' = Stopped(app)
    /\ UNCHANGED << server, codec >>

\* A step of the page that leaves the client alone
OnlyPage(name) ==
    /\ last' = Op(name)
    /\ emitted' = << >>
    /\ sent' = << >>
    /\ UNCHANGED << transportVars, playbackVars, serviceVars, now, reconnectObs,
                    practiceVars, server, codec >>

\* The user opens the Test tab: VoiceInterface is unmounted.  Its cleanup calls
\* disconnect() if clientRef.current is set and does not call endSession();
\* the component's own state is gone, the store keeps its fields.
OpenTestTab ==
    /\ app.tab = "practice"
    /\ IF app.clientRef THEN DisconnectClient ELSE OnlyPage("unmount")
    /\ app' = [app EXCEPT !.tab = "test", !.clientRef = FALSE, !.isConnected = FALSE]
    /\ UNCHANGED << server, codec >>

\* The user goes back to the Practice tab: PronunciationTest is unmounted.  Its
\* cleanup disconnects the test's own client, which the model does not follow,
\* and does not call endSession().
OpenPracticeTab ==
    /\ app.tab = "test"
    /\ app' = [app EXCEPT !.tab = "practice", !.isTestActive = FALSE]
    /\ OnlyPage("unmount")

\* PronunciationTest.startTest: the start button is shown while no test is
\* active.  startSession('pronunciation'), then connectToTutor with a client
\* of the test's own.
StartTest ==
    /\ app.tab = "test"
    /\ ~app.isTestActive
    /\ app.started < MaxSessions
    /\ app' = [SessionStarted(app, "pronunciation") EXCEPT !.isTestActive = TRUE]
    /\ OnlyPage("startTest")

\* PronunciationTest.stopTest: disconnects the test's client and ends the session.
StopTest ==
    /\ app.tab = "test"
    /\ app.isTestActive
    /\ app' = [SessionEnded(app) EXCEPT !.isTestActive = FALSE]
    /\ OnlyPage("stopTest")

\* ------------------------------------------------------------------------
\* The server: the relay of server.js and the /api/realtime route
\* ------------------------------------------------------------------------

Keys == 1..MaxKeys

\* The n-th frame the client sends on its connection
ClientFrame(n) == [from |-> "client", n |-> n]

\* The session.update the relay itself sends when its upstream socket opens
RelayConfig == [from |-> "relay", n |-> 0]

\* The server's handlers leave the client, the page and the codec alone.
OnlyServer(name) ==
    /\ last' = Op(name)
    /\ emitted' = << >>
    /\ sent' = << >>
    /\ UNCHANGED << transportVars, playbackVars, serviceVars, now, reconnectObs,
                    practiceVars, app, codec >>

\* server.on('upgrade') for /api/realtime/ws: the client's socket is
\* established and the relay constructs its socket to the remote service.
Upgrade ==
    /\ server.down = "none"
    /\ server' = [server EXCEPT !.down = "open", !.up = "connecting"]
    /\ OnlyServer("relay.upgrade")

\* The client sends its next frame; its socket to the relay is open.
ClientSend ==
    /\ server.down = "open"
    /\ Len(server.clientSent) < MaxFrames
    /\ LET f == ClientFrame(Len(server.clientSent) + 1)
       IN  server' = [server EXCEPT !.inbox = Append(@, f), !.clientSent = Append(@, f)]
    /\ OnlyServer("client.send")

\* ws.on('message'): openaiWs.readyState === WebSocket.OPEN
Forwards(up) == up = "open"

\* ws.on('message') for the oldest frame in flight
RelayOnMessage ==
    /\ server.down = "open"
    /\ server.inbox # << >>
    /\ server' = [server EXCEPT
                    !.inbox = Tail(@),
                    !.delivered = IF Forwards(server.up)
                                    THEN Append(@, Head(server.inbox)) ELSE @]
    /\ OnlyServer("relay.onmessage")

\* openaiWs.on('open'): the relay sends its own session.update.  The remote
\* service accepts the connection only with a key.
UpstreamOpen ==
    /\ server.up = "connecting"
    /\ server.key # NoKey
    /\ server' = [server EXCEPT !.up = "open", !.delivered = Append(@, RelayConfig)]
    /\ OnlyServer("relay.upstream.open")

\* openaiWs.on('error'): ws.close()
UpstreamError ==
    /\ server.up \in {"connecting", "open"}
    /\ server' = [server EXCEPT !.up = "failed", !.down = "closed"]
    /\ OnlyServer("relay.upstream.error")

\* openaiWs.on('close'): ws.close()
UpstreamClose ==
    /\ server.up \in {"open", "failed"}
    /\ server' = [server EXCEPT !.up = "closed", !.down = "closed"]
    /\ OnlyServer("relay.upstream.close")

\* ws.on('close'): openaiWs.close().  The close follows the frames the client
\* sent before it.
ClientClose ==
    /\ server.down = "open"
    /\ server.inbox = << >>
    /\ server' = [server EXCEPT !.down = "closed", !.up = "closed"]
    /\ OnlyServer("relay.onclose")

\* POST /api/realtime
Post ==
    /\ server' = [server EXCEPT !.response =
                     IF server.key = NoKey
                       THEN [status |-> 500, client_secret |-> NoKey]
                       ELSE [status |-> 200, client_secret |-> server.key]]
    /\ OnlyServer("POST /api/realtime")

Durations == 1..MaxDur

Next ==
    \/ Connect
    \/ \E caller \in Callers : GetUserMediaResolves(caller)
    \/ \E caller \in Callers : GetUserMediaRejects(caller)
    \/ ReconnectTimerFires
    \/ \E s \in SocketIds : OnOpen(s)
    \/ \E s \in SocketIds : OnError(s)
    \/ \E s \in SocketIds : \E code \in {NormalClosure, AbnormalClosure} : OnClose(s, code)
    \/ Disconnect
    \/ \E dur \in Durations : \E decodes \in BOOLEAN : AudioDelta(dur, decodes)
    \/ \E s \in sources : SourceEnded(s)
    \/ \E s \in sources : SourceDiscarded(s)
    \/ SpeechStarted
    \/ ResponseCancelled
    \/ ResponseCreated
    \/ ResponseDone
    \/ Tick
    \/ \E words \in WordLists : UpdateContext(words)
    \/ \E nonEmpty \in BOOLEAN : SetTestWord(nonEmpty)
    \/ \E mode \in PracticeModes : SetPracticeMode(mode)
    \/ \E transcript \in BOOLEAN : ConversationItemCreated(transcript)
    \/ \E text \in Texts : \E event \in TranscriptEvents : AudioTranscript(text, event)
    \/ FunctionCallArgumentsDone
    \/ ForceNextWord
    \/ \E cb \in BagToSet(delayed) : DelayedSend(cb)
    \/ BlockWindowElapses
    \/ AudioProcess
    \/ EncodeSample
    \/ DecodeSample
    \/ \E type \in ErrorTypes : ErrorFrame(type)
    \/ MalformedFrame
    \/ Upgrade
    \/ ClientSend
    \/ RelayOnMessage
    \/ UpstreamOpen
    \/ UpstreamError
    \/ UpstreamClose
    \/ ClientClose
    \/ Post
    \/ \E mode \in StoreModes : SelectMode(mode)
    \/ \E words \in WordLists : StartConversation(words)
    \/ StopConversation
    \/ OpenTestTab
    \/ OpenPracticeTab
    \/ StartTest
    \/ StopTest

\* The whole client.  Its state space is the product of the two parts below,
\* which share only disconnect() and the socket's open state; the properties
\* are checked on each part.
Spec == Init /\ [][Next]_vars

\* The playback pipeline of a session whose transport stays up: the application
\* connects once, the socket opens, and the remote service streams responses.
NextPlayback ==
    \/ nSockets + nPending < 1 /\ Connect
    \/ GetUserMediaResolves("user")
    \/ \E s \in SocketIds : OnOpen(s)
    \/ \E dur \in Durations : \E decodes \in BOOLEAN : AudioDelta(dur, decodes)
    \/ \E s \in sources : SourceEnded(s)
    \/ \E s \in sources : SourceDiscarded(s)
    \/ SpeechStarted
    \/ ResponseCancelled
    \/ ResponseCreated
    \/ ResponseDone
    \/ Tick
    \/ Disconnect
    \/ \E s \in SocketIds : sock[s] = "closing" /\ OnClose(s, NormalClosure)

SpecPlayback == Init /\ [][NextPlayback]_vars

\* The transport alone: no audio is streamed.
NextTransport ==
    \/ Connect
    \/ \E caller \in Callers : GetUserMediaResolves(caller)
    \/ \E caller \in Callers : GetUserMediaRejects(caller)
    \/ ReconnectTimerFires
    \/ \E s \in SocketIds : OnOpen(s)
    \/ \E s \in SocketIds : OnError(s)
    \/ \E s \in SocketIds : \E code \in {NormalClosure, AbnormalClosure} : OnClose(s, code)
    \/ Disconnect

SpecTransport == Init /\ [][NextTransport]_vars

\* The transport with the microphone running.
NextCapture ==
    \/ NextTransport
    \/ AudioProcess

SpecCapture == Init /\ [][NextCapture]_vars

\* The modes the practice-mode selector offers that differ in the client
SessionModes == {"pronunciation", "conversation"}

\* startConversation: updateContext and setPracticeMode on a new client, then
\* connect(); then the learner's utterances and the client's timers while the
\* transport stays open.
NextLearner ==
    \/ BeforeConnect /\ \E words \in WordLists : UpdateContext(words)
    \/ BeforeConnect /\ \E mode \in SessionModes : SetPracticeMode(mode)
    \/ BeforeConnect /\ Connect
    \/ GetUserMediaResolves("user")
    \/ \E s \in SocketIds : OnOpen(s)
    \/ \E transcript \in BOOLEAN : ConversationItemCreated(transcript)
    \/ ForceNextWord
    \/ \E cb \in BagToSet(delayed) : DelayedSend(cb)

\* The same session with the remote agent's events: transcripts of what it
\* says, and calls of move_to_next_word.
NextPractice ==
    \/ NextLearner
    \/ \E text \in Texts : \E event \in TranscriptEvents : AudioTranscript(text, event)
    \/ BlockWindowElapses
    \/ FunctionCallArgumentsDone

SpecPractice == Init /\ [][NextPractice]_vars

\* The learner keeps speaking and the timers of the event loop fire.
SpecPracticeLive ==
    /\ Init
    /\ [][NextLearner]_vars
    /\ WF_vars(ConversationItemCreated(TRUE))
    /\ WF_vars(ForceNextWord)
    /\ WF_vars(\E cb \in BagToSet(delayed) : DelayedSend(cb))

\* The frames of one session: the application sets the client up and connects
\* once; the remote service streams audio, reports the learner's utterances
\* and sends error frames and frames that are not JSON.
NextFrames ==
    \/ BeforeConnect /\ \E words \in WordLists : UpdateContext(words)
    \/ BeforeConnect /\ \E mode \in SessionModes : SetPracticeMode(mode)
    \/ BeforeConnect /\ Connect
    \/ GetUserMediaResolves("user")
    \/ GetUserMediaRejects("user")
    \/ \E s \in SocketIds : OnOpen(s)
    \/ ResponseCreated
    \/ \E dur \in Durations : \E decodes \in BOOLEAN : AudioDelta(dur, decodes)
    \/ \E transcript \in BOOLEAN : ConversationItemCreated(transcript)
    \/ \E type \in ErrorTypes : ErrorFrame(type)
    \/ MalformedFrame

SpecFrames == Init /\ [][NextFrames]_vars

\* The page with its first conversation: the user picks a mode, starts the
\* conversation and stops it; the transport opens, fails, closes and
\* reconnects underneath.
\* getAllWords().slice(0, 10) or getRecentWords(20) of a store that is empty
\* or holds MaxWords words.
StoreWords == { [i \in 1..n |-> i] : n \in {0, MaxWords} }

NextVoice ==
    \/ \E mode \in StoreModes : SelectMode(mode)
    \/ \E words \in StoreWords : StartConversation(words)
    \/ StopConversation
    \/ \E caller \in Callers : GetUserMediaResolves(caller)
    \/ \E caller \in Callers : GetUserMediaRejects(caller)
    \/ ReconnectTimerFires
    \/ \E s \in SocketIds : OnOpen(s)
    \/ \E s \in SocketIds : OnError(s)
    \/ \E s \in SocketIds : \E code \in {NormalClosure, AbnormalClosure} : OnClose(s, code)
    \/ \E cb \in BagToSet(delayed) : DelayedSend(cb)

SpecVoice == Init /\ [][NextVoice]_vars

\* The sockets of one conversation: the application sets the client up and
\* calls connect(), possibly again while a socket exists; sockets open, fail
\* and close, reconnect timers and the other timers fire, and the microphone
\* delivers audio.
NextOpening ==
    \/ BeforeConnect /\ \E words \in StoreWords : UpdateContext(words)
    \/ Connect
    \/ \E caller \in Callers : GetUserMediaResolves(caller)
    \/ ReconnectTimerFires
    \/ \E s \in SocketIds : OnOpen(s)
    \/ \E s \in SocketIds : OnError(s)
    \/ \E s \in SocketIds : \E code \in {NormalClosure, AbnormalClosure} : OnClose(s, code)
    \/ \E cb \in BagToSet(delayed) : DelayedSend(cb)
    \/ AudioProcess

SpecOpening == Init /\ [][NextOpening]_vars

\* A client configured the way PronunciationTest's connectToTutor configures
\* it, or otherwise: setTestWord, setPracticeMode and updateContext in any
\* order before connect(), then the socket opens and the timers fire.
NextTest ==
    \/ BeforeConnect /\ \E nonEmpty \in BOOLEAN : SetTestWord(nonEmpty)
    \/ BeforeConnect /\ \E mode \in PracticeModes : SetPracticeMode(mode)
    \/ BeforeConnect /\ \E words \in WordLists : UpdateContext(words)
    \/ BeforeConnect /\ Connect
    \/ GetUserMediaResolves("user")
    \/ \E s \in SocketIds : OnOpen(s)
    \/ \E cb \in BagToSet(delayed) : DelayedSend(cb)

SpecTest == Init /\ [][NextTest]_vars

\* A practice session whose transport is lost and re-established: the learner
\* speaks, the advance timers and the other timers fire, the application may
\* set the practice mode again, the socket closes abnormally and the reconnect
\* timer brings a new one up.
NextRecovery ==
    \/ BeforeConnect /\ \E words \in StoreWords : UpdateContext(words)
    \/ \E mode \in SessionModes : SetPracticeMode(mode)
    \/ BeforeConnect /\ Connect
    \/ \E caller \in Callers : GetUserMediaResolves(caller)
    \/ \E s \in SocketIds : OnOpen(s)
    \/ \E transcript \in BOOLEAN : ConversationItemCreated(transcript)
    \/ ForceNextWord
    \/ \E cb \in BagToSet(delayed) : DelayedSend(cb)
    \/ \E s \in SocketIds : OnClose(s, AbnormalClosure)
    \/ ReconnectTimerFires

SpecRecovery == Init /\ [][NextRecovery]_vars

\* A practice session in which the application hands the client a new word
\* list while the socket is open.
NextContext ==
    \/ NextLearner
    \/ WsOpen /\ \E words \in WordLists : UpdateContext(words)

SpecContext == Init /\ [][NextContext]_vars

\* The store's sessions: the user starts and stops a conversation on the
\* Practice tab and a pronunciation test on the Test tab, and moves between
\* the tabs.
NextSessions ==
    \/ \E words \in StoreWords : StartConversation(words)
    \/ StopConversation
    \/ GetUserMediaResolves("user")
    \/ GetUserMediaRejects("user")
    \/ \E s \in SocketIds : OnOpen(s)
    \/ OpenTestTab
    \/ OpenPracticeTab
    \/ StartTest
    \/ StopTest

SpecSessions == Init /\ [][NextSessions]_vars

\* The server process, started with or without a key, serving one connection
\* to the relay and requests to the route.
InitServer ==
    /\ InitClient
    /\ app = AppStart
    /\ codec = CodecStart(0)
    /\ \E key \in {NoKey} \cup Keys : server = ServerStart(key)

NextServer ==
    \/ Upgrade
    \/ ClientSend
    \/ RelayOnMessage
    \/ UpstreamOpen
    \/ UpstreamError
    \/ UpstreamClose
    \/ ClientClose
    \/ Post

SpecServer == InitServer /\ [][NextServer]_vars

\* One sample through both conversions, for every sample of the range.
InitCodec ==
    /\ InitClient
    /\ app = AppStart
    /\ server = ServerStart(1)
    /\ \E n \in Samples : codec = CodecStart(n)

NextCodec ==
    \/ EncodeSample
    \/ DecodeSample

SpecCodec == InitCodec /\ [][NextCodec]_vars

\* ------------------------------------------------------------------------
\* Properties
\* ------------------------------------------------------------------------

Ids(q) == [i \in 1..Len(q) |-> q[i].id]

\* Sources that were started and have neither played to their end nor been stopped
LiveSources == { s \in sources : s.state = "scheduled" /\ now < s.end }

\* C1: between two clearings of the queue (speech_started, response.cancelled,
\* disconnect), the buffers scheduled so far followed by the buffers still
\* queued are exactly the buffers enqueued, in arrival order: playback is FIFO
\* and a buffer leaves the queue only in the step that schedules it, once.
C1_FifoExactlyOnce == Ids(schedLog) \o Ids(playbackQueue) = arrived

C1_Witness == Len(schedLog) >= 2 /\ Len(playbackQueue) >= 1

\* C2: consecutive scheduled buffers with no clearing between them do not
\* overlap, and the later one starts exactly at the end of the earlier one
\* whenever it was enqueued before the earlier one finished playing.
C2_Contiguous ==
    \A i \in 1..(Len(schedLog) - 1) :
        LET a == schedLog[i]
            b == schedLog[i + 1]
        IN  a.base = b.base =>
              /\ b.start >= a.start + a.dur
              /\ (b.enq < a.base + a.start + a.dur => b.start = a.start + a.dur)

\* C3: a speech_started handled while exactly one source is live leaves the
\* queue empty, no source live, the handle null, isPlaying false and the
\* cursor at 0.
C3_InterruptionSilences ==
    [][ (last'.op = "speech_started" /\ Cardinality(LiveSources) = 1)
          => /\ playbackQueue' = << >>
             /\ currentAudioSource' = 0
             /\ ~isPlaying'
             /\ nextPlaybackTime' = 0
             /\ LiveSources' = {} ]_vars

\* C4: no buffer of a response that was in progress when speech_started was
\* handled is scheduled for playback after that interruption.
C4_NoStaleAudio == \A i \in 1..Len(schedLog) : ~schedLog[i].stale

\* C5: at most one source is live at any moment.
C5_OneLiveSource == Cardinality(LiveSources) <= 1

Emitted(e) == \E i \in 1..Len(emitted) : emitted[i] = e

\* C6: the reconnect attempts made since a socket last reached the open state
\* never exceed maxReconnectAttempts.
C6_ReconnectBound == sinceOpen <= maxReconnectAttempts

\* C7: a close event with code 1000 arms no reconnect timer and leaves
\* reconnectAttempts unchanged.
C7_NormalCloseNoReconnect ==
    [][ (last'.op = "ws.onclose" /\ last'.code = NormalClosure)
          => /\ reconnectAttempts' = reconnectAttempts
             /\ reconnectTimers' = reconnectTimers ]_vars

C7_Witness ==
    /\ last.op = "ws.onclose"
    /\ last.code = NormalClosure
    /\ reconnectAttempts < maxReconnectAttempts
    /\ ~disconnected

\* C8: from disconnect() until the application calls connect() again, no
\* reconnect attempt is armed and no connect() made by a reconnect timer
\* constructs a socket.
C8_NoReconnectAfterDisconnect ==
    [][ (disconnected /\ disconnected')
          => /\ reconnectTimers' <= reconnectTimers
             /\ ~(last'.op = "connect.resumed" /\ last'.caller = "timer") ]_vars

\* The client is left without a transport and with nothing pending that could
\* bring one back.
GivenUp ==
    /\ reconnectTimers = 0
    /\ nPending = 0
    /\ \A s \in SocketIds : sock[s] \in {"none", "closed"}

\* C9: once reconnectAttempts has reached the maximum through failures of the
\* transport and no socket has opened since, the fatal 'Maximum reconnection
\* attempts reached' error has been emitted by the time the client is left
\* without a transport and with nothing pending.
C9_FatalErrorSurfaced == (maxReached /\ GivenUp) => fatalEmitted

\* C10: 'reconnected' is emitted, and the counter reset, only once the new
\* socket is open.
C10_ResetOnlyWhenOpen == Emitted("reconnected") => WsOpen

\* The fields of the client and the objects they refer to
ClientState ==
    << ws, sock, isConnected, reconnectAttempts, reconnectTimers, pendingConnect,
       mediaStream, audioProcessor, audioContext, playbackQueue, isPlaying,
       nextPlaybackTime, currentAudioSource, sources, practiceVars >>

\* C11: a disconnect() that runs immediately after a disconnect() changes no
\* field of the client and no object it refers to, and leaves ws, mediaStream,
\* audioContext, audioProcessor and pc null, isConnected false, the playback
\* queue empty, isPlaying false and nextPlaybackTime 0.
C11_DisconnectIdempotent ==
    [][ (IsDisconnect(last) /\ last'.op = "disconnect.again")
          => /\ ClientState' = ClientState
             /\ ws' = 0
             /\ ~mediaStream'
             /\ audioContext' = 0
             /\ ~audioProcessor'
             /\ pc = 0
             /\ ~isConnected'
             /\ playbackQueue' = << >>
             /\ ~isPlaying'
             /\ nextPlaybackTime' = 0 ]_vars

C11_Witness == last.op = "disconnect.again" /\ sources # {} /\ reconnectAttempts > 0

\* C12: when disconnect() has returned, the capture processor, the audio
\* context, the media stream and the transport are released and their handles
\* null, and so is the active playback source.
C12_AllReleased ==
    IsDisconnect(last)
      => /\ ~audioProcessor
         /\ audioContext = 0
         /\ ~mediaStream
         /\ ws = 0
         /\ currentAudioSource = 0

\* Sockets that are connecting or open
LiveSockets == { s \in SocketIds : sock[s] \in {"connecting", "open"} }

\* C13: at most one socket is live at any moment; when connect() obtains a
\* media stream and constructs a socket, the client holds no stream and no live
\* socket; and when onopen sets up the capture pipeline, the client holds no
\* audio context and no processor.
C13_OneSessionAtATime ==
    [][ /\ Cardinality(LiveSockets') <= 1
        /\ (last'.op = "connect.resumed" => ~mediaStream /\ LiveSockets = {})
        /\ ((last'.op = "ws.onopen" /\ mediaStream) => audioContext = 0 /\ ~audioProcessor)
      ]_vars

\* A pronunciation session with enough words is running.
Progressing == WsOpen /\ wordProgressionEnabled /\ Len(recentWords) >= MinWords

\* C14: in a running pronunciation session with at least three words, the
\* index of a word that is not past the end changes only by one, and only when
\* exactly two attempts were counted for the word being left.
C14_TwoAttemptsPerWord ==
    [][ (Progressing /\ currentWordIndex < Len(recentWords)
           /\ currentWordIndex' # currentWordIndex)
          => /\ currentWordIndex' = currentWordIndex + 1
             /\ attemptCount = AttemptsPerWord ]_vars

\* The last step sent frame f
Sends(f) == \E k \in 1..Len(sent) : sent[k] = f

\* C15: a running pronunciation session with at least three words, on a word
\* of the list, leads to the completed state: the index is the length of the
\* list and the step that set it sent the completion notice.
C15_EventuallyCompleted ==
    (Progressing /\ currentWordIndex < Len(recentWords))
      ~> (currentWordIndex = Len(recentWords) /\ Sends(CompletionNotice))

C15_Witness ==
    /\ Progressing
    /\ currentWordIndex = Len(recentWords)
    /\ Sends(CompletionNotice)
    /\ last.op = "forceNextWord"

\* The word the learner is to pronounce
Target == WordAt(recentWords, currentWordIndex)

\* C16: in a running pronunciation session with at least three words, the
\* step that opens the session sends first a session.update naming
\* recentWords[0], and every step that changes the target to a word of the list
\* sends a conversation item naming that word.
C16_TargetDeclared ==
    [][ /\ ((last'.op = "ws.onopen" /\ Progressing')
              => /\ currentWordIndex' = 0
                 /\ Len(sent') >= 1
                 /\ sent'[1].type = "session.update"
                 /\ sent'[1].word = WordAt(recentWords', 0))
        /\ ((Progressing' /\ Target' # Target /\ currentWordIndex' < Len(recentWords'))
              => \E k \in 1..Len(sent') :
                     /\ sent'[k].type = "conversation.item.create"
                     /\ sent'[k].word = Target') ]_vars

C16_Witness ==
    /\ Progressing
    /\ last.op = "forceNextWord"
    /\ recentWords[1] = MaxWords
    /\ currentWordIndex = 1
    /\ Sends(NextWordNotice(recentWords, 1))

\* C17: in a session opened with fewer than three words, onopen sends only
\* the not-enough-words notice, and no step sends a frame naming a word of the
\* list, changes currentWordIndex or arms an advance timer.
C17_NoProgressionBelowMinimum ==
    [][ (WsOpen' /\ Len(recentWords') < MinWords)
          => /\ (last'.op = "ws.onopen"
                   => sent' = << Frame("session.update", "not-enough-words", Undefined) >>)
             /\ \A k \in 1..Len(sent') : sent'[k].word = Undefined
             /\ currentWordIndex' = currentWordIndex
             /\ advanceTimers' <= advanceTimers ]_vars

\* C18: once the index of a running pronunciation session is at or past the
\* length of the list, no step changes it and no step sends the completion
\* notice; the index is never past the length.
C18_CompletedIsFinal ==
    [][ (Progressing /\ currentWordIndex >= Len(recentWords))
          => /\ currentWordIndex' = currentWordIndex
             /\ currentWordIndex' <= Len(recentWords')
             /\ \A k \in 1..Len(sent') : sent'[k] # CompletionNotice ]_vars

\* The callback that sends the guard's correction
Correction == Callback("correct", Undefined)

\* C19: the step in which the wrong-word guard fires sends response.cancel and
\* nothing else, and the correction it queued, when it is sent, names a word of
\* the list, the one at currentWordIndex; neither step changes
\* currentWordIndex, attemptCount or waitingForNextWord.
C19_GuardCorrectsWithoutAdvancing ==
    [][ /\ (CopiesIn(Correction, delayed') > CopiesIn(Correction, delayed)
              => /\ sent' = << Frame("response.cancel", "", Undefined) >>
                 /\ UNCHANGED << currentWordIndex, attemptCount, waitingForNextWord >>)
        /\ ((last'.op = "timer" /\ last'.caller = "correct" /\ WsOpen)
              => /\ Len(sent') >= 1
                 /\ sent'[1].text = "correction"
                 /\ currentWordIndex < Len(recentWords)
                 /\ sent'[1].word = recentWords[currentWordIndex + 1]
                 /\ UNCHANGED << currentWordIndex, attemptCount, waitingForNextWord >>) ]_vars

\* C20: a chunk the processor delivers is sent as one input_audio_buffer.append
\* frame when this.ws is open and is dropped otherwise; the handler emits no
\* event and changes no field of the client.
C20_ChunkSentIffOpen ==
    [][ last'.op = "onaudioprocess"
          => /\ sent' = IF WsOpen THEN << Frame("input_audio_buffer.append", "", Undefined) >>
                                   ELSE << >>
             /\ emitted' = << >>
             /\ ClientState' = ClientState ]_vars

\* C21: a 'response.audio.delta' whose decoding fails leaves playbackQueue,
\* isPlaying, nextPlaybackTime, currentAudioSource and the source nodes
\* unchanged; while buffers are queued the scheduler is running and a source
\* whose "ended" event will schedule the next one is pending; and a chunk that
\* decodes, handled while there is an AudioContext, is recorded as arrived and
\* is either queued last or scheduled in that step.
C21_UndecodableChunkDropped ==
    [][ /\ (last'.op = "response.audio.delta.undecodable"
              => UNCHANGED << playbackQueue, isPlaying, nextPlaybackTime,
                              currentAudioSource, sources >>)
        /\ (playbackQueue' # << >>
              => isPlaying' /\ \E s \in sources' : s.state # "closed")
        /\ ((last'.op = "response.audio.delta" /\ audioContext # 0)
              => /\ arrived' = Append(arrived, chunks')
                 /\ \/ /\ playbackQueue' # << >>
                       /\ playbackQueue'[Len(playbackQueue')].id = chunks'
                    \/ /\ schedLog' # << >>
                       /\ schedLog'[Len(schedLog')].id = chunks') ]_vars

\* An undecodable chunk arrived between two chunks that were enqueued, while
\* the first was playing.
C21_Witness ==
    /\ last.op = "response.audio.delta"
    /\ chunks = 3
    /\ arrived = << 1, 3 >>
    /\ Len(schedLog) = 1
    /\ Len(playbackQueue) = 1

\* C22: a sample s in [-1, 1] that went through convertFloat32ToPCM16 and
\* playAudioChunk's conversion comes back within 1/32768 of s.
C22_RoundTripWithinOneStep ==
    (codec.stage = "decoded" /\ codec.sample \in (0 - SampleSteps)..SampleSteps)
      => LET d == codec.sample * DecodeScale - codec.float32 * SampleSteps
         IN  d <= SampleSteps /\ 0 - d <= SampleSteps

\* C23: a connect() whose microphone acquisition fails constructs no socket
\* and leaves ws as it was, sets up no capture pipeline, keeps no stream, and
\* emits 'error' first.
C23_AcquisitionFailureSurfaced ==
    [][ last'.op = "connect.failed"
          => /\ ws' = ws
             /\ sock' = sock
             /\ UNCHANGED << mediaStream, audioContext, audioProcessor, isConnected >>
             /\ Len(emitted') >= 1
             /\ emitted'[1] = "error" ]_vars

\* The connect() of a reconnect timer failed while ws refers to the socket
\* that was lost.
C23_Witness == last.op = "connect.failed" /\ last.caller = "timer" /\ ws # 0

\* C24: a connect() whose microphone acquisition fails and an inbound frame
\* that is not JSON end without an exception or a rejected promise leaving the
\* client, and emit 'error'.
C24_NoFailureEscapes ==
    last.op \in {"connect.failed", "ws.onmessage"} => ~last.threw /\ Emitted("error")

\* C25: handling an 'error' frame emits exactly one 'error' event, sends no
\* frame, arms no reconnect timer, starts no connect(), and leaves
\* reconnectAttempts, the playback state and the practice state unchanged.
C25_ErrorFrameOnlyEmits ==
    [][ last'.op = "error"
          => /\ emitted' = << "error" >>
             /\ sent' = << >>
             /\ UNCHANGED << reconnectAttempts, reconnectTimers, pendingConnect >>
             /\ UNCHANGED << playbackQueue, isPlaying, nextPlaybackTime, currentAudioSource,
                             sources >>
             /\ UNCHANGED practiceVars ]_vars

\* An 'error' frame handled while a buffer plays, another is queued, and the
\* learner has made an attempt at the current word.
C25_Witness ==
    /\ last.op = "error"
    /\ isPlaying
    /\ playbackQueue # << >>
    /\ attemptCount > 0
    /\ Progressing

\* The steps that clear the playback queue
Clears(l) == l.op \in {"speech_started", "response.cancelled"} \/ IsDisconnect(l)

\* C26 as stated: no step decreases nextPlaybackTime.
C26_CursorNeverDecreases == [][nextPlaybackTime' >= nextPlaybackTime]_vars

\* C26: nextPlaybackTime decreases only in a step that clears the queue
\* (speech_started, response.cancelled, disconnect), which sets it to 0; every
\* other step that changes it is the scheduler's and sets it to the end of
\* the buffer it scheduled, not before the clock's time and not before the
\* cursor's old value.
C26_CursorResetOnlyByClearing ==
    [][ nextPlaybackTime' # nextPlaybackTime
          => IF Clears(last')
               THEN nextPlaybackTime' = 0
               ELSE /\ schedLog' # << >>
                    /\ LET b == schedLog'[Len(schedLog')]
                       IN  /\ nextPlaybackTime' = b.start + b.dur
                           /\ b.start >= nextPlaybackTime
                           /\ b.start >= CurrentTime ]_vars

\* An interruption stopped a source scheduled to end at 2 or later and set
\* the cursor, which was at that end or beyond, back to 0.
C26_Witness ==
    /\ last.op = "speech_started"
    /\ nextPlaybackTime = 0
    /\ \E s \in sources : s.state = "stopped" /\ s.end - ctxBase >= 2

\* C27: while a client's connection to the relay is up, the frames delivered
\* to the remote service followed by the frames still in flight are exactly
\* the frames the client sent, in order: none dropped, added or reordered.
C27_RelayForwardsUnmodified ==
    server.down = "open" => server.delivered \o server.inbox = server.clientSent

\* C30: a response of the route that carries a client_secret never carries
\* the configured OPENAI_API_KEY.
C30_SecretIsNotTheKey ==
    server.response.status = 200 => server.response.client_secret # server.key

\* C28: once the client the page created is left without a transport and
\* with nothing pending that could bring one back, the connection indicator
\* shows not-connected.  In such a state only the user's stop button can
\* change the indicator.
C28_IndicatorShowsLoss == (app.client /\ nSockets > 0 /\ GivenUp) => ~app.isConnected

\* C29: while the store holds a current session, no step changes the store's
\* practiceMode.
C29_ModeFixedDuringSession ==
    [][ (app.currentSession /\ app'.currentSession)
          => app'.practiceMode = app.practiceMode ]_vars

PendingEnded == { s \in sources : s.state # "closed" }

C33_TestSessionNamesWord ==
    [][ ( /\ last'.op = "ws.onopen"
          /\ ws # 0 /\ sock'[ws] = "open"
          /\ testWord /\ practiceMode = "pronunciation-test" /\ recentWords = << >> )
          => /\ sent' = << Frame("session.update", "pronunciation-test", Undefined) >>
             /\ BagIn(Callback("start", Undefined), delayed') ]_vars

\* C34: while a source is playing or scheduled, the queue is marked busy and
\* currentAudioSource is the handle of such a source, so that an interruption
\* stops it.
C34_HandleTracksPlaying ==
    LiveSources # {} =>
        /\ isPlaying
        /\ \E s \in LiveSources : s.id = currentAudioSource

\* C35: at most one reconnect timer is pending at any time.
C35_OneReconnectTimer == reconnectTimers <= 1

\* C36: waitingForNextWord is true only while an advance timer is pending.
C36_WaitingHasTimer == waitingForNextWord => advanceTimers > 0

\* C37: word 0 is left only when two attempts at it have been counted since
\* the counters were last reset (by setPracticeMode, createSession or the
\* previous advance).
C37_WordZeroNeedsTwoAttempts ==
    [][ (currentWordIndex = 0 /\ currentWordIndex' # 0)
          => attemptCount >= AttemptsPerWord ]_vars

\* C38: in a running pronunciation session with at least three words, every
\* step after which the local current word is another word of the list has
\* declared that word to the remote agent, whichever method changed it.
C38_DeclaredIsCurrent ==
    [][ (Progressing /\ Progressing' /\ currentWordIndex' < Len(recentWords')
           /\ WordAt(recentWords', currentWordIndex') # WordAt(recentWords, currentWordIndex))
          => \E k \in 1..Len(sent') : sent'[k].word = Target' ]_vars

\* C39: a connect() that resumes from getUserMedia after disconnect() was
\* called (and before the application called connect() again) keeps no media
\* stream and constructs no socket.
C39_PendingConnectAbandoned ==
    [][ (disconnected /\ last'.op = "connect.resumed")
          => (~mediaStream' /\ ws' = 0 /\ ~isConnected') ]_vars

\* C40: every session that startSession started is the current session or
\* was appended to the store's sessions when it ended.
C40_SessionsRecorded ==
    app.started = app.sessions + (IF app.currentSession THEN 1 ELSE 0)

====
